---- MODULE Spec2Model ----
(***************************************************************************)
(* Model of the dependency pinner of idiap-devtools,                       *)
(* src/src/idiap_devtools/gitlab/release.py:                               *)
(*   _compatible_pins and _pin_versions_of_packages_list.                  *)
(*                                                                         *)
(* A dependency declaration text is a record of its syntactic parts:       *)
(*   name    the project name as written                                   *)
(*   extras  the extras in the order written                               *)
(*   specs   the version specifiers <<operator, version>> as written       *)
(*   url     the direct reference url, or None                             *)
(*   marker  the environment marker as written, or None                    *)
(*   spaced  TRUE when the text holds characters that the canonical       *)
(*           rendering str(Requirement) does not emit: optional            *)
(*           whitespace ("pkg-a == 2.0" against "pkg-a==2.0") or the       *)
(*           brackets of no extras ("pkg-a[]==2.0")                        *)
(* Two texts are the same string exactly when the records are equal.       *)
(***************************************************************************)
EXTENDS Integers, Sequences, FiniteSets, TLC

None == "None"

\* Longest packages list / constraints list of the list-level inputs.
MaxPkgs == 2
MaxCons == 2

Txt(name, extras, specs, url, marker, spaced) ==
    [name |-> name, extras |-> extras, specs |-> specs,
     url |-> url, marker |-> marker, spaced |-> spaced]

Range(s) == {s[k] : k \in 1..Len(s)}

----------------------------------------------------------------------------
(* pkg_resources.Requirement as the code uses it *)

\* A name the declaration grammar rejects (whitespace inside the name).
InvalidNames == {"pkg a"}

\* Requirement.parse(text) raises InvalidRequirement on such a text.
ParseOK(text) == text.name \notin InvalidNames

\* Requirement.key: safe_name(name).lower(), runs of characters outside
\* [A-Za-z0-9.] become "-", then lower case.
KeyOf(name) ==
    CASE name = "Pkg_A" -> "pkg-a"
      [] name = "Pkg_B" -> "pkg-b"
      [] OTHER -> name

\* str(Marker): the canonical spelling of a parsed marker.
MarkerStr(marker) ==
    CASE marker = "os_name=='nt'" -> "os_name == \"nt\""
      [] OTHER -> marker

\* Requirement.extras is tuple(set_of_extras): the order of a set of strings
\* follows their hashes, which differ from one interpreter run to the next.
\* seed[w] tells whether the two extras written as w come out swapped.
TwoExtras == {<<"x", "y">>, <<"y", "x">>}

\* Requirement.specs lists the specifiers of a frozenset: their order
\* follows their hashes as well. seed[w] tells whether the two specifiers
\* written as w, each spelled as "".join(s) spells it, come out swapped.
TwoSpecs == {<<">=2.5", "<3">>, <<"<3", ">=2.5">>}
Spelled(specs) == [k \in 1..Len(specs) |-> specs[k][1] \o specs[k][2]]

Seeds == [TwoExtras \cup TwoSpecs -> BOOLEAN]
NoSeed == [w \in TwoExtras \cup TwoSpecs |-> FALSE]
HashList(written, seed) ==
    IF Spelled(written) \in TwoSpecs /\ seed[Spelled(written)]
    THEN <<written[2], written[1]>>
    ELSE written
HashTuple(written, seed) ==
    IF written \in TwoExtras /\ seed[written]
    THEN <<written[2], written[1]>>
    ELSE written

\* The strings in sorted() order, for the extras and the specifiers the
\* model uses ("<" sorts before "=" before ">" before "~").
ExtrasOrder == <<"x", "y">>
SpecOrder == << <<"<", "2">>, <<"<", "3">>,
                <<"==", "1.0.0">>, <<"==", "1.2.3">>, <<"==", "2.0">>,
                <<"==", "2.5">>, <<"==", "2.8">>,
                <<">=", "2.0">>, <<">=", "2.5">>, <<"~=", "2.0">> >>
SortedExtras(S) == SelectSeq(ExtrasOrder, LAMBDA e : e \in S)
SortedSpecs(S) == SelectSeq(SpecOrder, LAMBDA s : s \in S)

\* Requirement.parse(text), for a text the grammar accepts. specs holds the
\* specifiers of the list Requirement.specs, specs_list the list.
Parse(text, seed) ==
    [name |-> text.name,
     key |-> KeyOf(text.name),
     extras |-> HashTuple(text.extras, seed),
     specs |-> Range(text.specs),
     specs_list |-> HashList(text.specs, seed),
     url |-> text.url,
     marker |-> IF text.marker = None THEN None ELSE MarkerStr(text.marker)]

\* str(requirement): name, sorted extras, sorted specifiers or "@ url",
\* "; marker"; no optional whitespace.
Str(req) ==
    Txt(req.name, SortedExtras(Range(req.extras)), SortedSpecs(req.specs),
        req.url, req.marker, FALSE)

----------------------------------------------------------------------------
(* The functions of release.py *)

Returned(value) == [raised |-> None, value |-> value]
Raised(exception) == [raised |-> exception, value |-> None]

\* _compatible_pins(desired_pin, restriction), called with a Requirement as
\* desired_pin: "restriction is None" returns True, otherwise
\* len(desired_pin) is evaluated and a Requirement has no len().
_compatible_pins(desired_pin, restriction) ==
    IF restriction = None
    THEN Returned(TRUE)
    ELSE Raised("TypeError")

\* A duplicate check that remembers the requirements instead of their keys.
HasDuplicateKey_SameRequirement(deps) ==
    \E j, k \in 1..Len(deps) : j < k /\ deps[j] = deps[k]

\* The duplicate check on the constraints, lines 173-180.
HasDuplicateKey(deps) ==
    \E j, k \in 1..Len(deps) : j < k /\ deps[j].key = deps[k].key

\* dependencies_dict = {d.key: d for d in dependencies_versions}
DictOf(deps) ==
    [key \in {deps[k].key : k \in 1..Len(deps)} |->
        LET last == CHOOSE k \in 1..Len(deps) :
                        /\ deps[k].key = key
                        /\ \A j \in 1..Len(deps) : deps[j].key = key => j <= k
        IN deps[last]]

\* A final_str that spells only the first specifier of the pin.
FinalStr_FirstSpecOnly(pkg_req, desired_pin) ==
    LET marker == desired_pin.marker
        extras == desired_pin.extras
    IN IF desired_pin.url # None
       THEN Txt(pkg_req.key, extras, <<>>, desired_pin.url, marker,
                extras = <<>> \/ marker = None)
       ELSE Txt(pkg_req.key, extras,
                SubSeq(desired_pin.specs_list, 1, 1), None,
                marker, extras = <<>>)

\* A final_str that keeps the url of a package that already has one.
FinalStr_KeepUrl(pkg_req, desired_pin) ==
    LET marker == desired_pin.marker
        extras == desired_pin.extras
    IN IF desired_pin.url # None
       THEN Txt(pkg_req.key, extras, <<>>,
                IF pkg_req.url # None THEN pkg_req.url ELSE desired_pin.url,
                marker, extras = <<>> \/ marker = None)
       ELSE Txt(pkg_req.key, extras, desired_pin.specs_list, None,
                marker, extras = <<>>)

\* final_str of lines 237-274, as the text it spells: the key, the extras
\* of the pin in brackets, which are there without extras too ("pkg-a[]"),
\* then "@ url " and the marker, or the specifiers in the order of the list
\* desired_pin.specs and the marker. The url without a marker leaves a
\* space at the end.
FinalStr(pkg_req, desired_pin) ==
    LET marker == desired_pin.marker
        extras == desired_pin.extras
    IN IF desired_pin.url # None
       THEN Txt(pkg_req.key, extras, <<>>, desired_pin.url, marker,
                extras = <<>> \/ marker = None)
       ELSE Txt(pkg_req.key, extras, desired_pin.specs_list, None,
                marker, extras = <<>>)

\* An iteration that writes str(pkg_req) back for a package without a pin.
PinPackage_Rerender(package, dict, seed) ==
    IF ~ParseOK(package)
    THEN Raised("InvalidRequirement")
    ELSE
      LET pkg_req == Parse(package, seed)
      IN IF pkg_req.key \notin DOMAIN dict
         THEN Returned(Str(pkg_req))
         ELSE
           LET desired_pin == dict[pkg_req.key]
               compatible ==
                   IF /\ desired_pin.url = None
                      /\ pkg_req.specs # {}
                   \* pkg_req.specs[0]: one specifier of the package
                   THEN _compatible_pins(desired_pin,
                                         pkg_req.specs_list[1])
                   ELSE Returned(TRUE)
           IN IF desired_pin.url = None /\ desired_pin.specs = {}
              THEN Returned(package)
              ELSE IF compatible.raised # None
              THEN Raised(compatible.raised)
              ELSE IF ~compatible.value
              THEN Raised("ValueError")
              ELSE IF /\ desired_pin.marker # None
                      /\ pkg_req.marker # None
                      /\ desired_pin.marker # pkg_req.marker
              THEN Raised("ValueError")
              ELSE IF desired_pin.extras # pkg_req.extras
              THEN Raised("ValueError")
              ELSE Returned(Str(Parse(FinalStr(pkg_req, desired_pin), seed)))

\* An iteration without the test of lines 221-226 for a constraint that
\* has no specifier.
PinPackage_NoSkip(package, dict, seed) ==
    IF ~ParseOK(package)
    THEN Raised("InvalidRequirement")
    ELSE
      LET pkg_req == Parse(package, seed)
      IN IF pkg_req.key \notin DOMAIN dict
         THEN Returned(package)
         ELSE
           LET desired_pin == dict[pkg_req.key]
               compatible ==
                   IF /\ desired_pin.url = None
                      /\ pkg_req.specs # {}
                   \* pkg_req.specs[0]: one specifier of the package
                   THEN _compatible_pins(desired_pin,
                                         pkg_req.specs_list[1])
                   ELSE Returned(TRUE)
           IN IF compatible.raised # None
              THEN Raised(compatible.raised)
              ELSE IF ~compatible.value
              THEN Raised("ValueError")
              ELSE IF /\ desired_pin.marker # None
                      /\ pkg_req.marker # None
                      /\ desired_pin.marker # pkg_req.marker
              THEN Raised("ValueError")
              ELSE IF desired_pin.extras # pkg_req.extras
              THEN Raised("ValueError")
              ELSE Returned(Str(Parse(FinalStr(pkg_req, desired_pin), seed)))

\* One iteration of the loop over packages_list, lines 188-277: the entry
\* that ends up in results for this package, or the exception raised.
PinPackage(package, dict, seed) ==
    IF ~ParseOK(package)
    THEN Raised("InvalidRequirement")
    ELSE
      LET pkg_req == Parse(package, seed)
      IN IF pkg_req.key \notin DOMAIN dict
         THEN Returned(package)
         ELSE
           LET desired_pin == dict[pkg_req.key]
               compatible ==
                   IF /\ desired_pin.url = None
                      /\ pkg_req.specs # {}
                   \* pkg_req.specs[0]: one specifier of the package
                   THEN _compatible_pins(desired_pin,
                                         pkg_req.specs_list[1])
                   ELSE Returned(TRUE)
           IN IF desired_pin.url = None /\ desired_pin.specs = {}
              THEN Returned(package)
              ELSE IF compatible.raised # None
              THEN Raised(compatible.raised)
              ELSE IF ~compatible.value
              THEN Raised("ValueError")
              ELSE IF /\ desired_pin.marker # None
                      /\ pkg_req.marker # None
                      /\ desired_pin.marker # pkg_req.marker
              THEN Raised("ValueError")
              ELSE IF desired_pin.extras # pkg_req.extras
              THEN Raised("ValueError")
              ELSE Returned(Str(Parse(FinalStr(pkg_req, desired_pin), seed)))

\* The loop of lines 188-277 over the packages that are left, and the whole
\* call, lines 173-279, as the value it returns or the exception it raises.
RECURSIVE PinLoop(_, _, _, _)
PinLoop(packages, dict, seed, results) ==
    IF packages = <<>>
    THEN Returned(results)
    ELSE LET out == PinPackage(Head(packages), dict, seed)
         IN IF out.raised # None
            THEN Raised(out.raised)
            ELSE PinLoop(Tail(packages), dict, seed,
                         Append(results, out.value))

_pin_versions_of_packages_list(packages_list, dependencies_versions, seed) ==
    IF HasDuplicateKey(dependencies_versions)
    THEN Raised("NotImplementedError")
    ELSE PinLoop(packages_list, DictOf(dependencies_versions), seed, <<>>)

----------------------------------------------------------------------------
(* Inputs *)

U1 == "https://www.idiap.ch/dummy/pgk-a"
U2 == "https://www.idiap.ch/dummy/pkg-a"
NtRaw == "os_name=='nt'"
Nt == "os_name == \"nt\""
Posix == "os_name == \"posix\""

Spec1(op, version) == << <<op, version>> >>

\* Single declarations, every combination of the parts.
PkgBodies ==
    {[specs |-> s, url |-> None] :
        s \in {<<>>, Spec1("==", "2.0"), Spec1("<", "2"), Spec1("==", "2.8"),
               Spec1(">=", "2.0"), Spec1("==", "1.2.3")}}
    \cup {[specs |-> <<>>, url |-> U1]}
RichPkgs ==
    {Txt(n, e, b.specs, b.url, m, sp) :
        n \in {"pkg-a", "Pkg_A"},
        e \in {<<>>, <<"x">>, <<"x", "y">>},
        b \in PkgBodies,
        m \in {None, NtRaw},
        sp \in BOOLEAN}

ConBodies ==
    {[specs |-> s, url |-> None] :
        s \in {<<>>, Spec1("==", "1.2.3"), Spec1("==", "2.5"),
               Spec1(">=", "2.5"),
               << <<">=", "2.5">>, <<"<", "3">> >>}}
    \cup {[specs |-> <<>>, url |-> U2]}
RichCons ==
    {Txt("pkg-a", e, b.specs, b.url, m, TRUE) :
        e \in {<<>>, <<"x">>, <<"y", "x">>},
        b \in ConBodies,
        m \in {None, Nt, Posix}}
    \cup {Txt("pkg-z", <<>>, Spec1("==", "1.0.0"), None, None, TRUE)}

\* Declarations for the lists.
ListPkgs ==
    {Txt("pkg-a", <<>>, <<>>, None, None, FALSE),
     Txt("pkg-a", <<>>, Spec1("==", "2.0"), None, None, TRUE),
     Txt("Pkg_B", <<>>, <<>>, None, NtRaw, FALSE),
     Txt("pkg-b", <<>>, Spec1("==", "2.8"), None, None, TRUE),
     Txt("pkg a", <<>>, <<>>, None, None, FALSE)}
ListCons ==
    {Txt("pkg-a", <<>>, Spec1("==", "1.2.3"), None, None, TRUE),
     Txt("pkg-a", <<>>, <<>>, U2, None, FALSE),
     Txt("pkg-a", <<>>, <<>>, None, None, FALSE),
     Txt("pkg-b", <<>>, Spec1("~=", "2.0"), None, None, TRUE),
     Txt("pkg-b", <<>>, Spec1("~=", "2.0"), None, Posix, TRUE),
     Txt("pkg-z", <<>>, Spec1("==", "1.0.0"), None, None, TRUE)}

SeqsUpTo(S, n) == UNION {[1..k -> S] : k \in 0..n}

\* The hash order matters only for a text with two extras or two
\* specifiers.
SeedsFor(texts) ==
    {seed \in Seeds :
        /\ \A w \in TwoExtras :
               seed[w] => \E t \in texts : t.extras = w
        /\ \A w \in TwoSpecs :
               seed[w] => \E t \in texts : Spelled(t.specs) = w}

----------------------------------------------------------------------------
(* The manifest pyproject.toml and its update                               *)

MaxGroups == 2

\* The text of a manifest is the sequence of its entries.
Entry(table, key, value) == [table |-> table, key |-> key, value |-> value]

\* A documentation url is the sequence of the segments of its path; the
\* entry of a manifest that has none holds NoUrl.
NoUrl == <<>>

Lookup(text, table, key, default) ==
    IF \E k \in 1..Len(text) : text[k].table = table /\ text[k].key = key
    THEN text[CHOOSE k \in 1..Len(text) :
                  text[k].table = table /\ text[k].key = key].value
    ELSE default

\* tomlkit.loads, line 325, and the lookups of lines 348, 352 and 369 with
\* their defaults.
Loads(text) ==
    [version |-> Lookup(text, "project", "version", None),
     dependencies |-> Lookup(text, "project", "dependencies", <<>>),
     optional |->
         LET groups == SelectSeq(text,
                 LAMBDA e : e.table = "project.optional-dependencies")
         IN [k \in 1..Len(groups) |-> <<groups[k].key, groups[k].value>>],
     documentation |-> Lookup(text, "project.urls", "documentation", NoUrl)]

\* tomlkit.dumps, lines 363 and 378.
Dumps(data) ==
    (IF data.version = None
     THEN <<>>
     ELSE <<Entry("project", "version", data.version)>>)
    \o <<Entry("project", "dependencies", data.dependencies),
         Entry("project.urls", "documentation", data.documentation)>>
    \o [k \in 1..Len(data.optional) |->
            Entry("project.optional-dependencies",
                  data.optional[k][1], data.optional[k][2])]

\* re.match(packaging.version.VERSION_PATTERN, ...), line 328, on the strings
\* used here: it matches one that starts as a version, with or without "v".
VersionLike == {"1.2.3", "1.2.4b0", "1.0.0b0", "v1.0.0", "1.2", "1.2.3b1"}
MatchesVersionPattern(string) == string \in VersionLike

\* Lines 315-323 and 366: the path segments BRANCH_RE matches.
Variants(default_branch) ==
    {"available", "latest", "main", "master", "stable", default_branch}
BranchMatches(segment, default_branch) ==
    \/ segment \in Variants(default_branch)
    \/ MatchesVersionPattern(segment)

\* Lines 370-376: BRANCH_RE.search and BRANCH_RE.sub on the url.
BranchSearch(url, default_branch) ==
    \E k \in 1..Len(url) : BranchMatches(url[k], default_branch)
BranchSub(url, version, default_branch) ==
    [k \in 1..Len(url) |->
        IF BranchMatches(url[k], default_branch)
        THEN IF version # None THEN "v" \o version ELSE default_branch
        ELSE url[k]]

\* Manifests: the dependencies, the optional groups, the constraints, the
\* documentation url.
ManifestPkgs ==
    {Txt("pkg-a", <<>>, <<>>, None, None, FALSE),
     Txt("Pkg_B", <<>>, <<>>, None, NtRaw, FALSE),
     Txt("pkg-b", <<>>, Spec1("==", "2.8"), None, None, TRUE),
     Txt("pkg a", <<>>, <<>>, None, None, FALSE)}
ManifestGroups ==
    {<<"qa", <<Txt("pkg-a", <<>>, <<>>, None, None, FALSE)>> >>,
     <<"doc", <<Txt("Pkg_B", <<>>, <<>>, None, NtRaw, FALSE)>> >>,
     <<"test", <<>> >>}
ManifestOptionals ==
    {o \in SeqsUpTo(ManifestGroups, MaxGroups) :
        \A j, k \in 1..Len(o) : o[j][1] = o[k][1] => j = k}
ManifestCons ==
    {Txt("pkg-a", <<>>, Spec1("==", "1.2.3"), None, None, TRUE),
     Txt("pkg-a", <<>>, <<>>, U2, None, FALSE),
     Txt("pkg-b", <<>>, Spec1("~=", "2.0"), None, None, TRUE)}
ManifestUrls ==
    {NoUrl, <<"docs">>, <<"docs", "main">>, <<"docs", "v1.0.0", "develop">>}

Manifest(dependencies, optional, documentation) ==
    Dumps([version |-> "1.0.0b0", dependencies |-> dependencies,
           optional |-> optional, documentation |-> documentation])

\* The arguments of _update_pyproject next to contents and
\* dependencies_versions; pin says that dependencies_versions is not None.
Args(version, default_branch, update_urls, pin) ==
    [version |-> version, default_branch |-> default_branch,
     update_urls |-> update_urls, pin |-> pin]

\* Calls: every manifest of dependencies and groups with every list of
\* constraints, and every choice of the other arguments on a small manifest.
PyprojectCalls ==
    {[contents |-> Manifest(d, o, NoUrl),
      args |-> Args("1.2.3", "main", FALSE, TRUE), c |-> c] :
        d \in SeqsUpTo(ManifestPkgs, MaxPkgs),
        o \in ManifestOptionals,
        c \in SeqsUpTo(ManifestCons, MaxCons)}
    \cup
    {[contents |->
          Manifest(<<Txt("pkg-a", <<>>, <<>>, None, None, FALSE)>>, <<>>, u),
      args |-> Args(v, b, uu, p),
      c |-> IF p
            THEN <<Txt("pkg-a", <<>>, Spec1("==", "1.2.3"), None, None, TRUE)>>
            ELSE <<>>] :
        u \in ManifestUrls, v \in {"1.2.3", "1.2.4b0", "main"},
        b \in {"main", "develop"}, uu \in BOOLEAN, p \in BOOLEAN}

\* The whole call _update_pyproject, lines 325-378, as the text it returns
\* or the exception it raises.
_update_pyproject(contents, args, dependencies_versions, seed) ==
    LET loaded == Loads(contents)
        data == IF MatchesVersionPattern(args.version)
                THEN [loaded EXCEPT !.version = args.version]
                ELSE loaded
        main == IF args.pin
                THEN _pin_versions_of_packages_list(
                         data.dependencies, dependencies_versions, seed)
                ELSE Returned(<<>>)
        group == _pin_versions_of_packages_list(
                     main.value, dependencies_versions, seed)
        url == data.documentation
    IN IF main.raised # None
       THEN Raised(main.raised)
       ELSE IF args.pin /\ data.optional # <<>>
       THEN Raised(IF group.raised # None THEN group.raised ELSE "TypeError")
       ELSE IF /\ args.update_urls
               /\ url # NoUrl
               /\ BranchSearch(url, args.default_branch)
       THEN Returned(Dumps([data EXCEPT !.documentation =
                BranchSub(url, args.version, args.default_branch)]))
       ELSE Returned(Dumps(data))

----------------------------------------------------------------------------
(* Strings the code takes apart: a sequence of one-character strings        *)

Digits == <<"0", "1", "2", "3", "4", "5", "6", "7", "8", "9">>
IsDigit(c) == \E d \in 1..10 : Digits[d] = c
DigitValue(c) == (CHOOSE d \in 1..10 : Digits[d] = c) - 1

\* The string of a sequence of characters.
RECURSIVE Text(_)
Text(chars) ==
    IF chars = <<>> THEN "" ELSE Head(chars) \o Text(Tail(chars))

\* str.split(sep) for a separator of one character.
RECURSIVE Split(_, _)
Split(chars, sep) ==
    IF \A k \in 1..Len(chars) : chars[k] # sep
    THEN <<chars>>
    ELSE LET k == CHOOSE j \in 1..Len(chars) :
                      /\ chars[j] = sep
                      /\ \A h \in 1..(j - 1) : chars[h] # sep
         IN <<SubSeq(chars, 1, k - 1)>>
                \o Split(SubSeq(chars, k + 1, Len(chars)), sep)

\* int(string) of a string of digits; anything else makes int raise
\* ValueError.
IsInt(chars) ==
    chars # <<>> /\ \A k \in 1..Len(chars) : IsDigit(chars[k])
RECURSIVE IntOf(_)
IntOf(chars) ==
    IF chars = <<>>
    THEN 0
    ELSE 10 * IntOf(SubSeq(chars, 1, Len(chars) - 1))
             + DigitValue(chars[Len(chars)])

\* The decimal digits of a number, as an f-string writes it.
RECURSIVE Decimal(_)
Decimal(n) ==
    IF n < 10
    THEN <<Digits[n + 1]>>
    ELSE Decimal(n \div 10) \o <<Digits[(n % 10) + 1]>>

----------------------------------------------------------------------------
(* README.md and _update_readme                                             *)

\* A line of the README: whether it holds "gitlab", the segments of the
\* path of its link, and the word of its badge "docs-<word>-", or None.
\* The README is its lines and whether the last one ends with a newline.
ReadmeLine(gitlab, path, badge) ==
    [gitlab |-> gitlab, path |-> path, badge |-> badge]
Readme(lines, newline) == [lines |-> lines, newline |-> newline]

\* Lines 70-91, one line of the loop; without a version the links go to
\* the default branch and the badge to "latest".
UpdateLine(line, version, default_branch) ==
    LET sub == /\ BranchSearch(line.path, default_branch)
               /\ \/ line.gitlab
                  \/ line.badge \in {"latest", "stable"}
    IN [line EXCEPT
           !.path = IF sub
                    THEN BranchSub(line.path, version, default_branch)
                    ELSE line.path,
           !.badge = IF /\ line.badge # None
                        /\ BranchMatches(line.badge, default_branch)
                     THEN IF version # None
                          THEN "v" \o version
                          ELSE "latest"
                     ELSE line.badge]

\* Lines 68-93: every line, joined, with a newline at the end.
_update_readme(contents, version, default_branch) ==
    Readme([k \in 1..Len(contents.lines) |->
               UpdateLine(contents.lines[k], version, default_branch)],
           TRUE)

----------------------------------------------------------------------------
(* The GitLab project and the inputs of release_package                     *)

\* The ids the server gives its pipelines, in the order it creates them,
\* written as numerals.
PipelineIds == <<"101", "102", "103">>

Pipeline(id, status) == [id |-> id, status |-> status]
NoPipeline == Pipeline(None, None)

\* The calls on gitpkg that change the project.
Modifying == {"commits.create", "pipeline.cancel", "releases.create"}

\* The parameters a call of _update_pyproject must give, lines 282-288, and
\* those the call of lines 777-782 gives.
Parameters ==
    {"contents", "version", "default_branch", "update_urls",
     "dependencies_versions"}
GivenForLatest == {"contents", "version", "default_branch", "update_urls"}

\* The server takes a commit or a tag: it may start a pipeline for it.
Started(pipelines, ci) ==
    IF ci /\ Len(pipelines) < Len(PipelineIds)
    THEN Append(pipelines, Pipeline(PipelineIds[Len(pipelines) + 1], "running"))
    ELSE pipelines

\* Lines 516-526: the data of a commit of README.md and pyproject.toml.
Commit(branch, message, readme, manifest) ==
    [branch |-> branch, commit_message |-> message,
     readme |-> readme, pyproject |-> manifest]

ReleaseTags ==
    {<<"v", "1", ".", "2", ".", "3">>,
     <<"v", "1", ".", "2">>,
     <<"v", "1", ".", "2", ".", "3", "b", "1">>}
ReleaseReadmes ==
    {Readme(<<>>, FALSE),
     Readme(<<ReadmeLine(TRUE, <<"bob", "main", "README.md">>, None),
              ReadmeLine(FALSE, <<"docs", "main">>, "latest")>>, TRUE),
     Readme(<<ReadmeLine(FALSE, <<"docs", "main">>, None),
              ReadmeLine(FALSE, <<"docs", "v1.0.0">>, "v1.0.0")>>, FALSE)}
ReleaseManifests ==
    {Manifest(<<Txt("pkg-a", <<>>, <<>>, None, None, FALSE)>>, <<>>,
              <<"docs", "main">>),
     Manifest(<<Txt("pkg-a", <<>>, <<>>, None, None, FALSE)>>,
              <<CHOOSE group \in ManifestGroups : group[1] = "qa">>, NoUrl),
     Manifest(<<Txt("pkg a", <<>>, <<>>, None, None, FALSE)>>, <<>>, NoUrl)}
ReleasePins ==
    {<<>>, <<Txt("pkg-a", <<>>, Spec1("==", "1.2.3"), None, None, TRUE)>>}
ReleasePipelines == {<<>>, <<Pipeline("100", "success")>>}

----------------------------------------------------------------------------
(* Version tags: distutils' StrictVersion, get_latest_tag_name and          *)
(* get_next_version                                                         *)

\* None for a tag name: the empty text, which is the name of no version.
NoTag == <<>>

\* name[1:], the name without its first character.
DropFirst(chars) == IF chars = <<>> THEN <<>> ELSE Tail(chars)

\* Where the first "a" or "b" of a text is, 0 if there is none.
PreAt(chars) ==
    IF \E j \in 1..Len(chars) : chars[j] \in {"a", "b"}
    THEN CHOOSE j \in 1..Len(chars) :
             /\ chars[j] \in {"a", "b"}
             /\ \A h \in 1..(j - 1) : chars[h] \notin {"a", "b"}
    ELSE 0

\* StrictVersion.version_re, ^(\d+)\.(\d+)(\.(\d+))?([ab](\d+))?$ : two or
\* three numbers, then perhaps "a" or "b" and a number.
IsStrictVersion(chars) ==
    LET at == PreAt(chars)
        release == IF at = 0 THEN chars ELSE SubSeq(chars, 1, at - 1)
        parts == Split(release, ".")
    IN /\ Len(parts) \in {2, 3}
       /\ \A j \in 1..Len(parts) : IsInt(parts[j])
       /\ at # 0 => IsInt(SubSeq(chars, at + 1, Len(chars)))

\* StrictVersion.parse: the three numbers, 0 for a patch that is not given,
\* and the pre-release, the letter "" standing for None.
StrictVersion(chars) ==
    LET at == PreAt(chars)
        release == IF at = 0 THEN chars ELSE SubSeq(chars, 1, at - 1)
        parts == Split(release, ".")
    IN [major |-> IntOf(parts[1]),
        minor |-> IntOf(parts[2]),
        patch |-> IF Len(parts) = 3 THEN IntOf(parts[3]) ELSE 0,
        letter |-> IF at = 0 THEN "" ELSE chars[at],
        number |-> IF at = 0
                   THEN 0
                   ELSE IntOf(SubSeq(chars, at + 1, Len(chars)))]

\* StrictVersion._cmp(v, w) < 0: the numbers decide; with the same numbers
\* a pre-release is before the release, and "a" before "b".
Before(v, w) ==
    IF v.major # w.major THEN v.major < w.major
    ELSE IF v.minor # w.minor THEN v.minor < w.minor
    ELSE IF v.patch # w.patch THEN v.patch < w.patch
    ELSE IF v.letter = "" THEN FALSE
    ELSE IF w.letter = "" THEN TRUE
    ELSE IF v.letter # w.letter THEN v.letter = "a"
    ELSE v.number < w.number

\* list.sort(key=StrictVersion): the sort is stable.
RECURSIVE Insert(_, _)
Insert(sorted, name) ==
    IF sorted = <<>>
    THEN <<name>>
    ELSE LET last == sorted[Len(sorted)]
         IN IF Before(StrictVersion(name), StrictVersion(last))
            THEN Append(Insert(SubSeq(sorted, 1, Len(sorted) - 1), name),
                        last)
            ELSE Append(sorted, name)
RECURSIVE Sort(_)
Sort(names) ==
    IF names = <<>>
    THEN <<>>
    ELSE Insert(Sort(SubSeq(names, 1, Len(names) - 1)), names[Len(names)])

\* sub in chars, for two strings.
Contains(chars, sub) ==
    \E j \in 1..(Len(chars) - Len(sub) + 1) :
        SubSeq(chars, j, j + Len(sub) - 1) = sub

\* chars.split(sub)[0], for a sub that chars contains.
UpTo(chars, sub) ==
    LET j == CHOOSE h \in 1..(Len(chars) - Len(sub) + 1) :
                 /\ SubSeq(chars, h, h + Len(sub) - 1) = sub
                 /\ \A e \in 1..(h - 1) :
                        SubSeq(chars, e, e + Len(sub) - 1) # sub
    IN SubSeq(chars, 1, j - 1)

\* Line 479.
pre_releases == <<<<"a">>, <<"b">>, <<"c">>, <<"r", "c">>, <<"d", "e", "v">>>>

\* Line 480: the first of pre_releases that the patch contains, "" if none.
matches_pre_release(patch) ==
    IF \E j \in 1..Len(pre_releases) : Contains(patch, pre_releases[j])
    THEN pre_releases[CHOOSE j \in 1..Len(pre_releases) :
             /\ Contains(patch, pre_releases[j])
             /\ \A h \in 1..(j - 1) : ~Contains(patch, pre_releases[h])]
    ELSE <<>>

\* A patch that takes the number before the pre-release as released.
NextPatch_Released(patch) ==
    IF matches_pre_release(patch) # <<>>
    THEN LET number == UpTo(patch, matches_pre_release(patch))
         IN IF IsInt(number)
            THEN Returned(Decimal(IntOf(number) + 1))
            ELSE Raised("ValueError")
    ELSE IF IsInt(patch)
         THEN Returned(Decimal(IntOf(patch) + 1))
         ELSE Raised("ValueError")

\* Lines 477-493: the patch number of a patch release; a pre-release keeps
\* its own.
NextPatch(patch) ==
    IF matches_pre_release(patch) # <<>>
    THEN LET number == UpTo(patch, matches_pre_release(patch))
         IN IF IsInt(number)
            THEN Returned(Decimal((IntOf(number) - 1) + 1))
            ELSE Raised("ValueError")
    ELSE IF IsInt(patch)
         THEN Returned(Decimal(IntOf(patch) + 1))
         ELSE Raised("ValueError")

\* re.match(r"(\d+\.\d+\.\d+)", name): three numbers at the start.
StartsWithThreeNumbers(name) ==
    LET parts == Split(name, ".")
    IN /\ Len(parts) >= 3
       /\ IsInt(parts[1])
       /\ IsInt(parts[2])
       /\ parts[3] # <<>>
       /\ IsDigit(parts[3][1])

\* The names of the tags, the bound on how many a project has, and the
\* lists of them.
TagNames ==
    {<<"v", "1", ".", "2", ".", "3">>,
     <<"v", "1", ".", "2", ".", "4", "b", "0">>,
     <<"v", "1", ".", "9", ".", "9">>,
     <<"v", "1", ".", "1", "0", ".", "0", "a", "1">>,
     <<"v", "1", ".", "2">>,
     <<"v", "l", "a", "t", "e", "s", "t">>}
MaxTags == 2
TagLists == UNION {[1..n -> TagNames] : n \in 0..MaxTags}
Bumps == {"major", "minor", "patch"}

----------------------------------------------------------------------------
(* The WebDAV server and the paths of the dav commands                      *)

\* Paths, as characters.
Slash == <<"/">>
Up == <<"u", "p">>
Gone == <<"g", "o", "n", "e">>
FileName == <<"a", ".", "t", "x", "t">>
FileNameWithHash ==
    <<"a", "-", "0", "1", "2", "3", "4", "5", "6", "7", ".", "t", "x", "t">>
DirName == <<"d">>

\* Lines 189-190 and 278-279: a path starts with "/".
Rooted(p) == IF p # <<>> /\ p[1] = "/" THEN p ELSE Slash \o p

\* re.sub("/+", "/", p), line 300.
RECURSIVE Collapse(_)
Collapse(p) ==
    IF Len(p) < 2
    THEN p
    ELSE IF p[1] = "/" /\ p[2] = "/"
         THEN Collapse(Tail(p))
         ELSE <<p[1]>> \o Collapse(Tail(p))

\* The name of a resource on the server: the client takes a path with or
\* without a "/" at its end for the same resource.
RECURSIVE Resource(_)
Resource(p) ==
    IF Len(p) > 1 /\ p[Len(p)] = "/"
    THEN Resource(SubSeq(p, 1, Len(p) - 1))
    ELSE p

\* A resource of the server, and where its contents come from.
Stored(p, origin) == [path |-> Resource(p), origin |-> origin]

\* cl.check(p): there is such a resource.
Check(resources, p) == \E r \in resources : r.path = Resource(p)

\* Whether a resource is the resource p or lies under it.
Under(r, p) ==
    \/ r.path = Resource(p)
    \/ /\ Len(r.path) > Len(Resource(p))
       /\ SubSeq(r.path, 1, Len(Resource(p)) + 1) = Resource(p) \o Slash

\* cl.clean(p): the resource and all it holds are removed.
Clean(resources, p) == {r \in resources : ~Under(r, p)}

\* cl.upload_file and cl.upload_directory: the local contents take the
\* place of whatever the server has under this name.
Upload(resources, p) == Clean(resources, p) \cup {Stored(p, "local")}

\* cl.mkdir(p): there is a directory of this name.
Mkdir(resources, p) == resources \cup {Stored(p, "made")}

\* A call on the client.
Call(op, p) == [op |-> op, path |-> p]

\* The calls that ask and change nothing on the server.
Queries == {"check", "list", "get_url", "info"}

\* The local resources: a file, with the name that carries its hash, and a
\* directory.
LocalFile == [dir |-> FALSE, name |-> FileName, hashed |-> FileNameWithHash]
LocalDir == [dir |-> TRUE, name |-> DirName, hashed |-> DirName]
MaxLocal == 2
Locals == UNION {[1..n -> {LocalFile, LocalDir}] : n \in 1..MaxLocal}

\* The arguments path and remote, and what the server holds at first.
DavPaths ==
    {Up, Slash \o Up \o Slash, Slash \o Gone, Up \o Slash \o DirName}
Servers ==
    {{},
     {Stored(Slash \o Up, "remote")},
     {Stored(Slash \o Up, "remote"),
      Stored(Slash \o Up \o Slash \o FileName, "remote")},
     {Stored(Slash \o Up, "remote"),
      Stored(Slash \o Up \o Slash \o DirName, "remote")},
     {Stored(Slash \o Up, "remote"),
      Stored(Slash \o Up \o Slash \o FileNameWithHash, "remote"),
      Stored(Slash \o Up \o Slash \o DirName, "remote")},
     {Stored(Slash \o Up, "remote"),
      Stored(Slash \o Up \o FileName, "remote")}}

\* Lines 126-131 of makedirs, the loop over path.split("/"): rpath grows by
\* one component at a time, without the "/" at its start, and each rpath
\* the server does not have is made. The client is given each rpath as the
\* loop builds it: the first one is the empty name before the "/", and none
\* of them starts with "/".
RECURSIVE MakeEach(_, _, _, _)
MakeEach(parts, rpath, client, written) ==
    IF parts = <<>>
    THEN [cl |-> client, echoed |-> written]
    ELSE LET next == IF rpath # <<>>
                     THEN rpath \o Slash \o Head(parts)
                     ELSE Head(parts)
             asked == Append(client.calls, Call("check", next))
         IN IF Check(client.resources, next)
            THEN MakeEach(Tail(parts), next,
                          [client EXCEPT !.calls = asked], written)
            ELSE MakeEach(Tail(parts), next,
                          [resources |-> Mkdir(client.resources, next),
                           calls |-> Append(asked, Call("mkdir", next))],
                          Append(written, "mkdir"))

\* Lines 292-301: the remote name of a local resource. The name of a file
\* is put right after remote; that of a directory is joined with "/".
ActualRemote(base, resource, hash) ==
    IF ~resource.dir
    THEN base \o (IF hash THEN resource.hashed ELSE resource.name)
    ELSE Collapse(base \o Slash \o resource.name)

\* Lines 582-583 of wait_for_pipeline_to_finish; max_sleep is 120 * 60.
sleep_step == 30
max_sleep == 7200

\* The statuses the server reports for a pipeline.
Statuses ==
    {"created", "pending", "running", "success", "failed", "canceled",
     "skipped"}
Unfinished == {"running", "pending"}

----------------------------------------------------------------------------
(* The call _pin_versions_of_packages_list(packages_list,                   *)
(* dependencies_versions) as a state machine                               *)

VARIABLES
    packages_list,          \* the caller's list of declaration texts
    passed,                 \* what that list held when the call was made
    constraints,            \* the texts the caller built the constraints from
    dependencies_versions,  \* the constraints, a list of Requirement
    seed,                   \* the hash order of this interpreter run
    pc,                     \* "start", "loop", "done" or "raised"
    dependencies_dict,      \* key -> Requirement, once built
    i,                      \* how many packages the for loop has taken
    results,                \* the local list results
    raised,                 \* the exception that ended the call, or None
    returned,               \* the value returned, or None
    contents,               \* the manifest text given to _update_pyproject
    args,                   \* its other arguments
    data,                   \* the document data
    pkg_deps,               \* the local pkg_deps
    g,                      \* how many optional groups the loop has taken
    dry_run,                \* release_package: its argument dry_run
    tag_name,               \* its argument tag_name, as characters
    tag_comments,           \* its argument tag_comments
    gitpkg,                 \* the GitLab project: branch, files, commits,
                            \* pipelines, releases
    calls,                  \* the calls made on gitpkg, in order
    readme_contents_orig,   \* the locals of release_package
    readme_contents,
    pyproject_contents_orig,
    pyproject_contents,
    running_pipeline,
    pipeline_id,            \* wait_for_pipeline_to_finish: its argument
    pipeline,               \* the pipeline as last fetched
    slept_so_far,           \* the seconds slept
    bump,                   \* get_next_version: its argument bump
    latest_tags,            \* the names of the releases of the project
    tag_names,              \* the local tag_names of get_latest_tag_name
    latest_tag_name,        \* the latest tag name, NoTag for None
    command,                \* dav: "makedirs", "rmtree" or "upload"
    execute,                \* the flag --execute
    checksum,               \* the flag --checksum
    path,                   \* the argument path of rmtree
    remote,                 \* the argument remote of upload
    local,                  \* the arguments local of upload
    taken,                  \* how many of them the for loop has taken
    cl,                     \* the WebDAV client: the resources of the
                            \* server and the calls made, in order
    echoed                  \* the messages written, in order

vars == <<packages_list, passed, constraints, dependencies_versions, seed,
          pc, dependencies_dict, i, results, raised, returned,
          contents, args, data, pkg_deps, g,
          dry_run, tag_name, tag_comments, gitpkg, calls,
          readme_contents_orig, readme_contents, pyproject_contents_orig,
          pyproject_contents, running_pipeline,
          pipeline_id, pipeline, slept_so_far,
          bump, latest_tags, tag_names, latest_tag_name,
          command, execute, checksum, path, remote, local, taken, cl,
          echoed>>

inputs == <<packages_list, passed, constraints, dependencies_versions, seed>>

pyproject == <<contents, args, data, pkg_deps, g>>

released == <<dry_run, tag_name, tag_comments, gitpkg, calls,
              readme_contents_orig, readme_contents, pyproject_contents_orig,
              pyproject_contents, running_pipeline>>

waited == <<pipeline_id, pipeline, slept_so_far>>

versioned == <<bump, latest_tags, tag_names, latest_tag_name>>

davs == <<command, execute, checksum, path, remote, local, taken, cl, echoed>>

\* What the pinner and _update_pyproject do not touch.
beyond == <<released, waited, versioned, davs>>

\* No call of get_next_version is under way.
NoVersion ==
    /\ bump = None
    /\ latest_tags = <<>>
    /\ tag_names = <<>>
    /\ latest_tag_name = NoTag

\* No dav command is under way.
NoDav ==
    /\ command = None
    /\ execute = FALSE
    /\ checksum = FALSE
    /\ path = <<>>
    /\ remote = <<>>
    /\ local = <<>>
    /\ taken = 0
    /\ cl = [resources |-> {}, calls |-> <<>>]
    /\ echoed = <<>>

\* No call of wait_for_pipeline_to_finish is under way.
NoWait ==
    /\ pipeline_id = None
    /\ pipeline = NoPipeline
    /\ slept_so_far = 0

\* No call of release_package is under way.
NoRelease ==
    /\ dry_run = FALSE
    /\ tag_name = <<>>
    /\ tag_comments = ""
    /\ gitpkg = [default_branch |-> "main",
                 files |-> [readme |-> Readme(<<>>, FALSE),
                            pyproject |-> <<>>],
                 commits |-> <<>>, pipelines |-> <<>>, releases |-> <<>>]
    /\ calls = <<>>
    /\ readme_contents_orig = Readme(<<>>, FALSE)
    /\ readme_contents = Readme(<<>>, FALSE)
    /\ pyproject_contents_orig = <<>>
    /\ pyproject_contents = <<>>
    /\ running_pipeline = NoPipeline

\* No call of _update_pyproject is under way.
NoPyproject ==
    /\ contents = <<>>
    /\ args = Args(None, None, FALSE, FALSE)
    /\ data = Loads(<<>>)
    /\ pkg_deps = <<>>
    /\ g = 0

Inputs ==
    {[p |-> p, c |-> c] :
        p \in [1..1 -> RichPkgs], c \in SeqsUpTo(RichCons, 1)}
    \cup {[p |-> p, c |-> c] :
        p \in SeqsUpTo(ListPkgs, MaxPkgs), c \in SeqsUpTo(ListCons, MaxCons)}

Init ==
    /\ \E in \in Inputs :
        /\ packages_list = in.p
        /\ passed = in.p
        /\ constraints = in.c
        /\ seed \in SeedsFor(Range(in.p) \cup Range(in.c))
    /\ dependencies_versions =
           [k \in 1..Len(constraints) |-> Parse(constraints[k], seed)]
    /\ pc = "start"
    /\ dependencies_dict = <<>>
    /\ i = 0
    /\ results = <<>>
    /\ raised = None
    /\ returned = None
    /\ NoPyproject
    /\ NoRelease
    /\ NoWait
    /\ NoVersion
    /\ NoDav

\* Lines 173-185: the duplicate check, the dict and the empty results.
CheckDuplicates ==
    /\ pc = "start"
    /\ IF HasDuplicateKey(dependencies_versions)
       THEN /\ raised' = "NotImplementedError"
            /\ pc' = "raised"
            /\ UNCHANGED dependencies_dict
       ELSE /\ dependencies_dict' = DictOf(dependencies_versions)
            /\ pc' = "loop"
            /\ UNCHANGED raised
    /\ UNCHANGED <<beyond, pyproject, inputs, i, results, returned>>

\* A loop that appends to results only once a package has been pinned.
PinNext_DropUnpinned ==
    /\ pc = "loop"
    /\ i < Len(packages_list)
    /\ i' = i + 1
    /\ LET package == packages_list[i + 1]
           out == PinPackage(package, dependencies_dict, seed)
       IN IF out.raised # None
          THEN /\ raised' = out.raised
               /\ pc' = "raised"
               /\ UNCHANGED results
          ELSE /\ results' = IF out.value = package
                             THEN results
                             ELSE Append(results, out.value)
               /\ UNCHANGED <<raised, pc>>
    /\ UNCHANGED <<beyond, pyproject, inputs, dependencies_dict, returned>>

\* A loop that also writes each pinned entry into packages_list.
PinNext_InPlace ==
    /\ pc = "loop"
    /\ i < Len(packages_list)
    /\ i' = i + 1
    /\ LET package == packages_list[i + 1]
           out == PinPackage(package, dependencies_dict, seed)
       IN IF out.raised # None
          THEN /\ raised' = out.raised
               /\ pc' = "raised"
               /\ results' = Append(results, package)
               /\ UNCHANGED packages_list
          ELSE /\ results' = Append(results, out.value)
               /\ packages_list' =
                      [packages_list EXCEPT ![i + 1] = out.value]
               /\ UNCHANGED <<raised, pc>>
    /\ UNCHANGED <<beyond, pyproject, passed, constraints, dependencies_versions,
                   seed, dependencies_dict, returned>>

\* Lines 188-277: one iteration of the loop. The package is appended to
\* results first (line 190); results[-1] is replaced at line 277.
PinNext ==
    /\ pc = "loop"
    /\ i < Len(packages_list)
    /\ i' = i + 1
    /\ LET package == packages_list[i + 1]
           out == PinPackage(package, dependencies_dict, seed)
       IN IF out.raised # None
          THEN /\ raised' = out.raised
               /\ pc' = "raised"
               /\ results' = Append(results, package)
          ELSE /\ results' = Append(results, out.value)
               /\ UNCHANGED <<raised, pc>>
    /\ UNCHANGED <<beyond, pyproject, inputs, dependencies_dict, returned>>

\* Line 279.
Return ==
    /\ pc = "loop"
    /\ i = Len(packages_list)
    /\ returned' = results
    /\ pc' = "done"
    /\ UNCHANGED <<beyond, pyproject, inputs, dependencies_dict, i, results, raised>>

Next == CheckDuplicates \/ PinNext \/ Return

Spec == Init /\ [][Next]_vars

----------------------------------------------------------------------------
(* The call _update_pyproject(contents, version, default_branch,            *)
(* update_urls, dependencies_versions) as a state machine                   *)

pinner == <<packages_list, passed, dependencies_dict, i, results>>

InitPyproject ==
    /\ \E call \in PyprojectCalls :
        /\ contents = call.contents
        /\ args = call.args
        /\ constraints = call.c
        /\ seed \in SeedsFor(Range(call.c))
    /\ dependencies_versions =
           [k \in 1..Len(constraints) |-> Parse(constraints[k], seed)]
    /\ pc = "pyproject"
    /\ data = Loads(<<>>)
    /\ pkg_deps = <<>>
    /\ g = 0
    /\ raised = None
    /\ returned = None
    /\ NoRelease
    /\ NoWait
    /\ NoVersion
    /\ NoDav
    /\ packages_list = <<>>
    /\ passed = <<>>
    /\ dependencies_dict = <<>>
    /\ i = 0
    /\ results = <<>>

\* Lines 325-345: the document is loaded and takes the version when that is
\* a version.
SetVersion ==
    /\ pc = "pyproject"
    /\ data' = IF MatchesVersionPattern(args.version)
               THEN [Loads(contents) EXCEPT !.version = args.version]
               ELSE Loads(contents)
    /\ pc' = IF args.pin THEN "dependencies" ELSE "urls"
    /\ UNCHANGED <<beyond, pinner, contents, args, constraints,
                   dependencies_versions, seed, pkg_deps, g, raised, returned>>

\* Lines 348-349: the pinned dependencies are bound to pkg_deps.
PinDependencies ==
    /\ pc = "dependencies"
    /\ LET out == _pin_versions_of_packages_list(
                      data.dependencies, dependencies_versions, seed)
       IN IF out.raised # None
          THEN /\ raised' = out.raised
               /\ pc' = "raised"
               /\ UNCHANGED pkg_deps
          ELSE /\ pkg_deps' = out.value
               /\ pc' = "optional"
               /\ UNCHANGED raised
    /\ UNCHANGED <<beyond, pinner, contents, args, constraints,
                   dependencies_versions, seed, data, g, returned>>

\* Lines 352-360, one iteration: pkg_group_and_deps is a key of the table, a
\* string; pkg_deps is pinned again and the assignment to
\* pkg_group_and_deps[1] raises TypeError.
PinOptionalGroup ==
    /\ pc = "optional"
    /\ g < Len(data.optional)
    /\ g' = g + 1
    /\ LET out == _pin_versions_of_packages_list(
                      pkg_deps, dependencies_versions, seed)
       IN raised' = IF out.raised # None THEN out.raised ELSE "TypeError"
    /\ pc' = "raised"
    /\ UNCHANGED <<beyond, pinner, contents, args, constraints,
                   dependencies_versions, seed, data, pkg_deps, returned>>

\* Line 353, the end of the loop.
EndOptional ==
    /\ pc = "optional"
    /\ g = Len(data.optional)
    /\ pc' = "urls"
    /\ UNCHANGED <<beyond, pinner, contents, args, constraints,
                   dependencies_versions, seed, data, pkg_deps, g, raised,
                   returned>>

\* Lines 362-378: the documentation url is rewritten when asked for and the
\* document is serialized.
UpdateUrls ==
    /\ pc = "urls"
    /\ LET url == data.documentation
           new == IF /\ args.update_urls
                     /\ url # NoUrl
                     /\ BranchSearch(url, args.default_branch)
                  THEN [data EXCEPT !.documentation =
                            BranchSub(url, args.version, args.default_branch)]
                  ELSE data
       IN /\ data' = new
          /\ returned' = Dumps(new)
    /\ pc' = "done"
    /\ UNCHANGED <<beyond, pinner, contents, args, constraints,
                   dependencies_versions, seed, pkg_deps, g, raised>>

NextPyproject ==
    SetVersion \/ PinDependencies \/ PinOptionalGroup \/ EndOptional
    \/ UpdateUrls

SpecPyproject == InitPyproject /\ [][NextPyproject]_vars

----------------------------------------------------------------------------
(* The call release_package(gitpkg, tag_name, tag_comments, dry_run,        *)
(* profile) as a state machine                                              *)

\* What release_package does not touch.
outside_release == <<pinner, pyproject, waited, versioned, davs>>

arguments == <<dry_run, tag_name, tag_comments, constraints,
               dependencies_versions, seed>>

\* Line 708: tag_name[1:].
version_number == Tail(tag_name)

InitRelease ==
    /\ dry_run \in BOOLEAN
    /\ tag_name \in ReleaseTags
    /\ tag_comments \in {"", "notes"}
    /\ \E readme \in ReleaseReadmes, manifest \in ReleaseManifests,
          pipelines \in ReleasePipelines :
           gitpkg = [default_branch |-> "main",
                     files |-> [readme |-> readme, pyproject |-> manifest],
                     commits |-> <<>>, pipelines |-> pipelines,
                     releases |-> <<>>]
    /\ constraints \in ReleasePins
    /\ seed \in SeedsFor(Range(constraints))
    /\ dependencies_versions =
           [k \in 1..Len(constraints) |-> Parse(constraints[k], seed)]
    /\ calls = <<>>
    /\ readme_contents_orig = Readme(<<>>, FALSE)
    /\ readme_contents = Readme(<<>>, FALSE)
    /\ pyproject_contents_orig = <<>>
    /\ pyproject_contents = <<>>
    /\ running_pipeline = NoPipeline
    /\ pc = "get_readme"
    /\ raised = None
    /\ returned = None
    /\ NoPyproject
    /\ NoWait
    /\ NoVersion
    /\ NoDav
    /\ packages_list = <<>>
    /\ passed = <<>>
    /\ dependencies_dict = <<>>
    /\ i = 0
    /\ results = <<>>

\* Lines 708-719: README.md is read and rewritten for the release.
GetReadme ==
    /\ pc = "get_readme"
    /\ calls' = Append(calls, "files.get")
    /\ readme_contents_orig' = gitpkg.files.readme
    /\ readme_contents' = _update_readme(gitpkg.files.readme,
                               Text(version_number), gitpkg.default_branch)
    /\ pc' = "get_pyproject"
    /\ UNCHANGED <<outside_release, arguments, gitpkg,
                   pyproject_contents_orig, pyproject_contents,
                   running_pipeline, raised, returned>>

\* Lines 721-740: pyproject.toml is read and rewritten with the pins of the
\* profile.
GetPyproject ==
    /\ pc = "get_pyproject"
    /\ calls' = Append(calls, "files.get")
    /\ pyproject_contents_orig' = gitpkg.files.pyproject
    /\ LET out == _update_pyproject(
                      gitpkg.files.pyproject,
                      Args(Text(version_number), gitpkg.default_branch,
                           TRUE, TRUE),
                      dependencies_versions, seed)
       IN IF out.raised # None
          THEN /\ raised' = out.raised
               /\ pc' = "raised"
               /\ UNCHANGED pyproject_contents
          ELSE /\ pyproject_contents' = out.value
               /\ pc' = "commit_release"
               /\ UNCHANGED raised
    /\ UNCHANGED <<outside_release, arguments, gitpkg, readme_contents_orig,
                   readme_contents, running_pipeline, returned>>

\* A release commit that is created in a dry run as well.
CommitRelease_Always ==
    /\ pc = "commit_release"
    /\ \E ci \in BOOLEAN :
           /\ gitpkg' =
                  [gitpkg EXCEPT
                      !.files = [readme |-> readme_contents,
                                 pyproject |-> pyproject_contents],
                      !.commits = Append(@,
                          Commit(gitpkg.default_branch,
                                 "Increased stable version to "
                                     \o Text(version_number),
                                 readme_contents, pyproject_contents)),
                      !.pipelines = Started(@, ci)]
           /\ calls' = Append(calls, "commits.create")
    /\ pc' = IF dry_run THEN "create_release" ELSE "cancel_pipeline"
    /\ UNCHANGED <<outside_release, arguments, readme_contents_orig,
                   readme_contents, pyproject_contents_orig,
                   pyproject_contents, running_pipeline, raised, returned>>

\* Lines 743-748 and 516-540: the release commit, unless dry_run.
CommitRelease ==
    /\ pc = "commit_release"
    /\ IF dry_run
       THEN UNCHANGED <<gitpkg, calls>>
       ELSE \E ci \in BOOLEAN :
           /\ gitpkg' =
                  [gitpkg EXCEPT
                      !.files = [readme |-> readme_contents,
                                 pyproject |-> pyproject_contents],
                      !.commits = Append(@,
                          Commit(gitpkg.default_branch,
                                 "Increased stable version to "
                                     \o Text(version_number),
                                 readme_contents, pyproject_contents)),
                      !.pipelines = Started(@, ci)]
           /\ calls' = Append(calls, "commits.create")
    /\ pc' = IF dry_run THEN "create_release" ELSE "cancel_pipeline"
    /\ UNCHANGED <<outside_release, arguments, readme_contents_orig,
                   readme_contents, pyproject_contents_orig,
                   pyproject_contents, running_pipeline, raised, returned>>

\* Lines 750-752, 629-642 and 559-562: the last pipeline is fetched and
\* cancelled; with no pipeline the index [0] raises IndexError.
CancelLastPipeline ==
    /\ pc = "cancel_pipeline"
    /\ LET last == Len(gitpkg.pipelines)
       IN IF last = 0
          THEN /\ calls' = Append(calls, "pipelines.list")
               /\ raised' = "IndexError"
               /\ pc' = "raised"
               /\ UNCHANGED gitpkg
          ELSE /\ calls' = calls \o <<"pipelines.list", "pipeline.cancel">>
               /\ gitpkg' =
                      [gitpkg EXCEPT !.pipelines[last].status =
                          IF @ \in {"running", "pending"}
                          THEN "canceled"
                          ELSE @]
               /\ pc' = "create_release"
               /\ UNCHANGED raised
    /\ UNCHANGED <<outside_release, arguments, readme_contents_orig,
                   readme_contents, pyproject_contents_orig,
                   pyproject_contents, running_pipeline, returned>>

\* Lines 754-765: the release and its tag, unless dry_run; the description
\* is given only when tag_comments is not empty (None here otherwise).
CreateRelease ==
    /\ pc = "create_release"
    /\ IF dry_run
       THEN UNCHANGED <<gitpkg, calls>>
       ELSE \E ci \in BOOLEAN :
           /\ gitpkg' =
                  [gitpkg EXCEPT
                      !.releases = Append(@,
                          [name |-> Text(tag_name),
                           tag_name |-> Text(tag_name),
                           ref |-> gitpkg.default_branch,
                           description |-> IF tag_comments # ""
                                           THEN tag_comments
                                           ELSE None]),
                      !.pipelines = Started(@, ci)]
           /\ calls' = Append(calls, "releases.create")
    /\ pc' = "get_last_pipeline"
    /\ UNCHANGED <<outside_release, arguments, readme_contents_orig,
                   readme_contents, pyproject_contents_orig,
                   pyproject_contents, running_pipeline, raised, returned>>

\* Lines 767-768 and 559-562: the pipeline that is running now.
GetLastPipeline ==
    /\ pc = "get_last_pipeline"
    /\ calls' = Append(calls, "pipelines.list")
    /\ IF gitpkg.pipelines = <<>>
       THEN /\ raised' = "IndexError"
            /\ pc' = "raised"
            /\ UNCHANGED running_pipeline
       ELSE /\ running_pipeline' = gitpkg.pipelines[Len(gitpkg.pipelines)]
            /\ pc' = "update_latest"
            /\ UNCHANGED raised
    /\ UNCHANGED <<outside_release, arguments, gitpkg, readme_contents_orig,
                   readme_contents, pyproject_contents_orig,
                   pyproject_contents, returned>>

\* Lines 770-782: the next beta version, and the call of _update_pyproject
\* that does not give dependencies_versions: it raises TypeError. Lines
\* 783-799, the second commit and the return, are never reached.
UpdateLatest ==
    /\ pc = "update_latest"
    /\ LET parts == Split(version_number, ".")
       IN raised' = IF Len(parts) # 3 THEN "ValueError"
                    ELSE IF ~IsInt(parts[3]) THEN "ValueError"
                    ELSE IF Parameters \ GivenForLatest # {} THEN "TypeError"
                    ELSE None
    /\ pc' = IF raised' = None THEN "commit_latest" ELSE "raised"
    /\ UNCHANGED <<outside_release, arguments, gitpkg, calls,
                   readme_contents_orig, readme_contents,
                   pyproject_contents_orig, pyproject_contents,
                   running_pipeline, returned>>

NextRelease ==
    GetReadme \/ GetPyproject \/ CommitRelease \/ CancelLastPipeline
    \/ CreateRelease \/ GetLastPipeline \/ UpdateLatest

SpecRelease == InitRelease /\ [][NextRelease]_vars

\* The function runs on, statement after statement, until it returns or
\* raises. GetPyproject is enabled exactly at pc = "get_pyproject" and
\* leaves this position whatever it does, so that its weak fairness is
\* stated on pc.
SpecReleaseLive ==
    /\ SpecRelease
    /\ WF_vars(GetReadme)
    /\ []<>(pc # "get_pyproject")
    /\ WF_vars(CommitRelease)
    /\ WF_vars(CancelLastPipeline)
    /\ WF_vars(CreateRelease)
    /\ WF_vars(GetLastPipeline)
    /\ WF_vars(UpdateLatest)

----------------------------------------------------------------------------
(* Vocabulary of the properties *)

Positions == 1..Len(packages_list)

\* The loop has taken package k; the iteration for package k raised.
Taken(k) == k <= i
RaisedAt(k) == pc = "raised" /\ i = k

PkgReq(k) == Parse(packages_list[k], seed)
Pinned(k) ==
    /\ ParseOK(packages_list[k])
    /\ PkgReq(k).key \in DOMAIN dependencies_dict
Pin(k) == dependencies_dict[PkgReq(k).key]
Result(k) == Parse(results[k], seed)

\* Neither the marker test (lines 240-244) nor the extras test (lines
\* 254-258) fires for package k.
NoMarkerOrExtrasConflict(k) ==
    /\ PkgReq(k).extras = Pin(k).extras
    /\ \/ PkgReq(k).marker = None
       \/ Pin(k).marker = None
       \/ PkgReq(k).marker = Pin(k).marker

\* The release segments of the versions in use, padded to three.
VersionTuple(version) ==
    CASE version = "1.0.0" -> <<1, 0, 0>>
      [] version = "1.2.3" -> <<1, 2, 3>>
      [] version = "2" -> <<2, 0, 0>>
      [] version = "2.0" -> <<2, 0, 0>>
      [] version = "2.5" -> <<2, 5, 0>>
      [] version = "2.8" -> <<2, 8, 0>>
      [] version = "3" -> <<3, 0, 0>>

VersionLess(a, b) ==
    \/ a[1] < b[1]
    \/ a[1] = b[1] /\ a[2] < b[2]
    \/ a[1] = b[1] /\ a[2] = b[2] /\ a[3] < b[3]

\* "version in restriction" under the version-specifier semantics, for the
\* operators the package declarations use.
Satisfies(version, spec) ==
    LET v == VersionTuple(version)
        w == VersionTuple(spec[2])
    IN CASE spec[1] = "==" -> v = w
         [] spec[1] = "<" -> VersionLess(v, w)
         [] spec[1] = ">=" -> ~VersionLess(v, w)

SatisfiesAll(version, specs) == \A spec \in specs : Satisfies(version, spec)

\* The terms of the Compatibility Rule: a pin that is a single "== X"; the
\* X; a pin the rule calls complex. They are not the tests of lines 112-113
\* of _compatible_pins: the call of line 231 raises at line 109, and
\* desired_pin[0], a pair, is never equal to "==".
EqualityPin(pin) ==
    /\ pin.url = None
    /\ Cardinality(pin.specs) = 1
    /\ \A spec \in pin.specs : spec[1] = "=="
PinnedVersion(pin) == (CHOOSE spec \in pin.specs : TRUE)[2]
ComplexPin(pin) == pin.url = None /\ pin.specs # {} /\ ~EqualityPin(pin)

\* The Compatibility Rule: an equality pin is compatible when its version
\* satisfies the existing specifiers, a complex pin always.
CompatibleByRule(pin, req) ==
    \/ EqualityPin(pin) /\ SatisfiesAll(PinnedVersion(pin), req.specs)
    \/ ComplexPin(pin)

----------------------------------------------------------------------------
(* Properties *)

\* C1: when the call returns, the returned list is as long as packages_list
\* and its k-th entry declares the package key of the k-th package.
C1_OrderAndCardinality ==
    pc = "done" =>
        /\ Len(returned) = Len(packages_list)
        /\ \A k \in Positions :
               KeyOf(returned[k].name) = KeyOf(packages_list[k].name)

\* Two packages of different keys, the first pinned, and a constraint whose
\* key no package has.
C1_Witness ==
    /\ pc = "done"
    /\ Len(returned) = 2
    /\ KeyOf(packages_list[1].name) # KeyOf(packages_list[2].name)
    /\ returned[1] # packages_list[1]
    /\ \E key \in DOMAIN dependencies_dict :
           \A k \in Positions : KeyOf(packages_list[k].name) # key

\* C2: for a package with specifiers whose constraint is a single "== X",
\* the iteration raises ValueError exactly when X does not satisfy the
\* package's specifiers.
C2_ConflictIffUnsatisfied ==
    \A k \in Positions :
        ( /\ Taken(k)
          /\ Pinned(k)
          /\ PkgReq(k).specs # {}
          /\ EqualityPin(Pin(k))
          /\ NoMarkerOrExtrasConflict(k) )
        => ( (RaisedAt(k) /\ raised = "ValueError")
             <=> ~SatisfiesAll(PinnedVersion(Pin(k)), PkgReq(k).specs) )

\* C3: a package "< 2" with the constraint ">= 2.5" raises ValueError.
C3_RangeConflictRaises ==
    \A k \in Positions :
        ( /\ Taken(k)
          /\ Pinned(k)
          /\ PkgReq(k).specs = {<<"<", "2">>}
          /\ Pin(k).url = None
          /\ Pin(k).specs = {<<">=", "2.5">>} )
        => (RaisedAt(k) /\ raised = "ValueError")

\* C4: for a package with specifiers and a complex constraint nothing is
\* raised and the result carries the constraint's specifiers.
C4_ComplexPinReplaces ==
    \A k \in Positions :
        ( /\ Taken(k)
          /\ Pinned(k)
          /\ PkgReq(k).specs # {}
          /\ ComplexPin(Pin(k))
          /\ NoMarkerOrExtrasConflict(k) )
        => ( /\ ~RaisedAt(k)
             /\ Result(k).specs = Pin(k).specs )

\* C5: a package "== 2.8" with the constraint ">= 2.5" comes back as the
\* text it was.
C5_StricterPinUnchanged ==
    \A k \in Positions :
        ( /\ Taken(k)
          /\ Pinned(k)
          /\ PkgReq(k).specs = {<<"==", "2.8">>}
          /\ Pin(k).url = None
          /\ Pin(k).specs = {<<">=", "2.5">>}
          /\ NoMarkerOrExtrasConflict(k) )
        => ( /\ ~RaisedAt(k)
             /\ results[k] = packages_list[k] )

\* C6: for a package with specifiers and a constraint compatible with them,
\* the result carries exactly the constraint's specifiers.
C6_CompatiblePinReplaces ==
    \A k \in Positions :
        ( /\ Taken(k)
          /\ Pinned(k)
          /\ PkgReq(k).specs # {}
          /\ CompatibleByRule(Pin(k), PkgReq(k))
          /\ NoMarkerOrExtrasConflict(k) )
        => ( /\ ~RaisedAt(k)
             /\ Result(k).specs = Pin(k).specs )

\* C7: a package whose key has no constraint is returned as the text it was.
C7_UnpinnedUnmodified ==
    pc = "done" =>
        \A k \in Positions :
            ~Pinned(k) => returned[k] = packages_list[k]

\* A returned package without a constraint, written otherwise than
\* str(Requirement) would write it, while other constraints exist.
C7_Witness ==
    /\ pc = "done"
    /\ dependencies_versions # <<>>
    /\ \E k \in Positions :
           /\ ~Pinned(k)
           /\ Str(PkgReq(k)) # packages_list[k]
           /\ returned[k] = packages_list[k]

\* C8: a package without specifier and url whose constraint has specifiers
\* or a url comes out with exactly the constraint's specifiers and url.
C8_AdoptsConstraint ==
    \A k \in Positions :
        ( /\ Taken(k)
          /\ ~RaisedAt(k)
          /\ Pinned(k)
          /\ PkgReq(k).specs = {}
          /\ PkgReq(k).url = None
          /\ (Pin(k).specs # {} \/ Pin(k).url # None) )
        => ( /\ Result(k).specs = Pin(k).specs
             /\ Result(k).url = Pin(k).url )

\* A bare package pinned by a constraint of two specifiers.
C8_Witness ==
    \E k \in Positions :
        /\ Taken(k)
        /\ ~RaisedAt(k)
        /\ Pinned(k)
        /\ PkgReq(k).specs = {}
        /\ PkgReq(k).url = None
        /\ Cardinality(Pin(k).specs) = 2
        /\ Result(k).specs = Pin(k).specs

\* C9: with a url constraint the result is the url form with the
\* constraint's url and no specifier; the package's specifiers raise
\* nothing; no returned declaration has both a url and specifiers.
C9_UrlPinWins ==
    /\ \A k \in Positions :
           (Taken(k) /\ Pinned(k) /\ Pin(k).url # None) =>
               /\ NoMarkerOrExtrasConflict(k) => ~RaisedAt(k)
               /\ ~RaisedAt(k) =>
                      /\ Result(k).url = Pin(k).url
                      /\ Result(k).specs = {}
    /\ pc = "done" =>
           \A k \in 1..Len(returned) :
               ~(returned[k].url # None /\ returned[k].specs # <<>>)

\* A package with specifiers, or with another url, pinned by a url.
C9_Witness ==
    \E k \in Positions :
        /\ Taken(k)
        /\ ~RaisedAt(k)
        /\ Pinned(k)
        /\ Pin(k).url # None
        /\ PkgReq(k).specs # {}
        /\ Result(k).url = Pin(k).url

\* C10: a package declared with a url whose constraint is a version
\* specifier comes out as a url declaration without specifier.
C10_UrlPackageIgnored ==
    \A k \in Positions :
        ( /\ Taken(k)
          /\ Pinned(k)
          /\ PkgReq(k).url # None
          /\ Pin(k).url = None
          /\ Pin(k).specs # {}
          /\ NoMarkerOrExtrasConflict(k) )
        => ( /\ ~RaisedAt(k)
             /\ Result(k).url # None
             /\ Result(k).specs = {} )

\* The constraint of package k has specifiers or a url; the compatibility
\* test of lines 229-235 is not run for package k; the marker test fires.
PinHasRestriction(k) == Pin(k).specs # {} \/ Pin(k).url # None
NoCompatibilityTest(k) == Pin(k).url # None \/ PkgReq(k).specs = {}
MarkerConflict(k) ==
    /\ PkgReq(k).marker # None
    /\ Pin(k).marker # None
    /\ PkgReq(k).marker # Pin(k).marker

\* C11: when exactly one of the package and its constraint (with specifiers
\* or a url) has a marker, the result carries that marker.
C11_MarkerNeverDropped ==
    \A k \in Positions :
        ( /\ Taken(k)
          /\ ~RaisedAt(k)
          /\ Pinned(k)
          /\ PinHasRestriction(k)
          /\ (PkgReq(k).marker = None) # (Pin(k).marker = None) )
        => Result(k).marker =
               IF PkgReq(k).marker # None
               THEN PkgReq(k).marker
               ELSE Pin(k).marker

\* C12: when the package and its constraint (with specifiers or a url) both
\* have a marker, differing markers raise ValueError, and equal markers
\* raise nothing where no other test can.
C12_MarkerConflictRaises ==
    \A k \in Positions :
        ( /\ Taken(k)
          /\ Pinned(k)
          /\ PinHasRestriction(k)
          /\ PkgReq(k).marker # None
          /\ Pin(k).marker # None )
        => ( /\ PkgReq(k).marker # Pin(k).marker =>
                    (RaisedAt(k) /\ raised = "ValueError")
             /\ ( /\ PkgReq(k).marker = Pin(k).marker
                  /\ PkgReq(k).extras = Pin(k).extras
                  /\ NoCompatibilityTest(k) ) => ~RaisedAt(k) )

\* C13: when exactly one of the package and its constraint (with specifiers
\* or a url) has extras, nothing is raised for them and the result carries
\* those extras.
C13_SingleExtrasKept ==
    \A k \in Positions :
        ( /\ Taken(k)
          /\ Pinned(k)
          /\ PinHasRestriction(k)
          /\ (PkgReq(k).extras = <<>>) # (Pin(k).extras = <<>>)
          /\ ~MarkerConflict(k)
          /\ NoCompatibilityTest(k) )
        => ( /\ ~RaisedAt(k)
             /\ Range(Result(k).extras) =
                    Range(PkgReq(k).extras) \cup Range(Pin(k).extras) )

\* C14: when the package and its constraint (with specifiers or a url) both
\* have extras, sets that differ raise ValueError and equal sets raise
\* nothing; stated where neither the compatibility test nor the marker test
\* can raise first.
C14_ExtrasConflictIffSetsDiffer ==
    \A k \in Positions :
        ( /\ Taken(k)
          /\ Pinned(k)
          /\ PinHasRestriction(k)
          /\ PkgReq(k).extras # <<>>
          /\ Pin(k).extras # <<>>
          /\ ~MarkerConflict(k)
          /\ NoCompatibilityTest(k) )
        => ( (RaisedAt(k) /\ raised = "ValueError")
             <=> Range(PkgReq(k).extras) # Range(Pin(k).extras) )

\* Two of the constraints given have the same key.
TwoConstraintsOfOneKey ==
    \E j, k \in 1..Len(constraints) :
        /\ j # k
        /\ KeyOf(constraints[j].name) = KeyOf(constraints[k].name)

\* C15: with two constraints of one key the call ends in the duplicate
\* error (NotImplementedError) with no package taken, whatever the list.
C15_DuplicateBeforePackages ==
    TwoConstraintsOfOneKey =>
        /\ pc \in {"start", "raised"}
        /\ i = 0
        /\ results = <<>>
        /\ pc = "raised" => raised = "NotImplementedError"

\* The duplicate error with a packages list whose first entry is malformed.
C15_Witness ==
    /\ pc = "raised"
    /\ raised = "NotImplementedError"
    /\ dependencies_versions[1] # dependencies_versions[2]
    /\ packages_list # <<>>
    /\ ~ParseOK(packages_list[1])

\* C20: a package whose constraint has neither specifiers nor a url comes
\* back as the text it was, and its iteration raises nothing.
C20_EmptyPinUnmodified ==
    \A k \in Positions :
        ( /\ Taken(k)
          /\ Pinned(k)
          /\ Pin(k).url = None
          /\ Pin(k).specs = {} )
        => ( /\ ~RaisedAt(k)
             /\ results[k] = packages_list[k] )

\* Such a package, with specifiers, whose marker and extras differ from the
\* constraint's and whose text is not the canonical one.
C20_Witness ==
    \E k \in Positions :
        /\ Taken(k)
        /\ Pinned(k)
        /\ Pin(k).url = None
        /\ Pin(k).specs = {}
        /\ PkgReq(k).specs # {}
        /\ MarkerConflict(k)
        /\ PkgReq(k).extras # Pin(k).extras
        /\ Str(PkgReq(k)) # packages_list[k]
        /\ results[k] = packages_list[k]

\* C16: when the call raises, nothing is returned and the caller's packages
\* list and constraints are what they were when the call was made.
C16_AllOrNothing ==
    pc = "raised" =>
        /\ returned = None
        /\ packages_list = passed
        /\ dependencies_versions =
               [k \in 1..Len(constraints) |-> Parse(constraints[k], seed)]

\* A conflict at the second package after the first one was pinned.
C16_Witness ==
    /\ pc = "raised"
    /\ raised = "ValueError"
    /\ i = 2
    /\ results[1] # passed[1]
    /\ returned = None

\* C18: after a successful call the caller's list holds the pinned
\* declarations.
C18_PinsInPlace ==
    pc = "done" => packages_list = returned

\* C17: when the call returns and no constraint is a complex pin, the call
\* on the returned list with the same constraints returns that same list.
C17_Idempotent ==
    ( /\ pc = "done"
      /\ \A k \in 1..Len(dependencies_versions) :
             ~ComplexPin(dependencies_versions[k]) )
    => LET again == _pin_versions_of_packages_list(
                        returned, dependencies_versions, seed)
       IN /\ again.raised = None
          /\ again.value = returned

\* C19: when constraints were given, each dependency group of the serialized
\* output is the pinned list of that group of the manifest.
C19_EveryGroupPinned ==
    (pc = "done" /\ args.pin) =>
        LET before == Loads(contents)
            after == Loads(returned)
            main == _pin_versions_of_packages_list(
                        before.dependencies, dependencies_versions, seed)
        IN /\ main.raised = None
           /\ after.dependencies = main.value
           /\ Len(after.optional) = Len(before.optional)
           /\ \A k \in 1..Len(before.optional) :
                  LET group == _pin_versions_of_packages_list(
                                   before.optional[k][2],
                                   dependencies_versions, seed)
                  IN /\ group.raised = None
                     /\ after.optional[k] =
                            <<before.optional[k][1], group.value>>

----------------------------------------------------------------------------
(* The call wait_for_pipeline_to_finish(gitpkg, pipeline_id) as a state     *)
(* machine                                                                  *)

pins == <<constraints, dependencies_versions, seed>>

\* What wait_for_pipeline_to_finish does not touch.
outside_wait == <<pinner, pins, pyproject, released, versioned, davs>>

\* The pinner is not called and there are no constraints.
NoPinner ==
    /\ packages_list = <<>>
    /\ passed = <<>>
    /\ dependencies_dict = <<>>
    /\ i = 0
    /\ results = <<>>
    /\ constraints = <<>>
    /\ dependencies_versions = <<>>
    /\ seed = NoSeed

InitWait ==
    /\ pipeline_id \in {None, PipelineIds[1]}
    /\ pipeline = NoPipeline
    /\ slept_so_far = 0
    /\ pc = "wait"
    /\ raised = None
    /\ returned = None
    /\ NoPinner
    /\ NoPyproject
    /\ NoRelease
    /\ NoVersion
    /\ NoDav

\* Lines 585-598: nothing to wait for without an id; else the pipeline is
\* fetched, in whatever status the server reports.
StartWaiting ==
    /\ pc = "wait"
    /\ IF pipeline_id = None
       THEN /\ pc' = "done"
            /\ UNCHANGED pipeline
       ELSE /\ \E status \in Statuses :
                   pipeline' = Pipeline(pipeline_id, status)
            /\ pc' = "waiting"
    /\ UNCHANGED <<outside_wait, pipeline_id, slept_so_far, raised, returned>>

\* Lines 600-609, one iteration: sleep, count, give up past max_sleep, else
\* fetch the pipeline again.
Sleep ==
    /\ pc = "waiting"
    /\ pipeline.status \in Unfinished
    /\ slept_so_far' = slept_so_far + sleep_step
    /\ IF slept_so_far' > max_sleep
       THEN /\ raised' = "ValueError"
            /\ pc' = "raised"
            /\ UNCHANGED pipeline
       ELSE /\ \E status \in Statuses :
                   pipeline' = Pipeline(pipeline_id, status)
            /\ UNCHANGED <<raised, pc>>
    /\ UNCHANGED <<outside_wait, pipeline_id, returned>>

\* A check that raises for a failed pipeline only.
Finish_FailedOnly ==
    /\ pc = "waiting"
    /\ pipeline.status \notin Unfinished
    /\ IF pipeline.status = "failed"
       THEN /\ raised' = "ValueError"
            /\ pc' = "raised"
       ELSE /\ pc' = "done"
            /\ UNCHANGED raised
    /\ UNCHANGED <<outside_wait, waited, returned>>

\* Lines 611-626: the pipeline is over; any status but success raises.
Finish ==
    /\ pc = "waiting"
    /\ pipeline.status \notin Unfinished
    /\ IF pipeline.status # "success"
       THEN /\ raised' = "ValueError"
            /\ pc' = "raised"
       ELSE /\ pc' = "done"
            /\ UNCHANGED raised
    /\ UNCHANGED <<outside_wait, waited, returned>>

NextWait == StartWaiting \/ Sleep \/ Finish

SpecWait == InitWait /\ [][NextWait]_vars

----------------------------------------------------------------------------
(* The call get_next_version(gitpkg, bump) as a state machine               *)

outside_version == <<pinner, pins, pyproject, released, waited, davs>>

outside_dav == <<pinner, pins, pyproject, released, waited, versioned>>

InitVersion ==
    /\ bump \in Bumps
    /\ latest_tags \in TagLists
    /\ tag_names = <<>>
    /\ latest_tag_name = NoTag
    /\ pc = "list_tags"
    /\ raised = None
    /\ returned = None
    /\ NoPinner
    /\ NoPyproject
    /\ NoRelease
    /\ NoWait
    /\ NoDav

\* Lines 395-404 of get_latest_tag_name: the names without their first
\* character, those kept that are a StrictVersion.
ListTags ==
    /\ pc = "list_tags"
    /\ tag_names' = SelectSeq([j \in 1..Len(latest_tags) |->
                                  DropFirst(latest_tags[j])],
                           IsStrictVersion)
    /\ pc' = "sort_tags"
    /\ UNCHANGED <<outside_version, bump, latest_tags, latest_tag_name,
                   raised, returned>>

\* Lines 393-394 and 405-414: None without a version tag, else the last of
\* the sorted names.
SortTags ==
    /\ pc = "sort_tags"
    /\ tag_names' = Sort(tag_names)
    /\ latest_tag_name' = IF tag_names = <<>>
                          THEN NoTag
                          ELSE tag_names'[Len(tag_names')]
    /\ pc' = "bump"
    /\ UNCHANGED <<outside_version, bump, latest_tags, raised, returned>>

\* Lines 443-493 of get_next_version.
BumpVersion ==
    /\ pc = "bump"
    /\ LET parts == Split(latest_tag_name, ".")
           out ==
               IF latest_tag_name = NoTag
               THEN Returned(IF bump = "major" THEN "v1.0.0"
                             ELSE IF bump = "minor" THEN "v0.1.0"
                             ELSE "v0.0.1")
               ELSE IF ~StartsWithThreeNumbers(latest_tag_name)
               THEN Raised("ValueError")
               ELSE IF Len(parts) # 3
               THEN Raised("ValueError")
               ELSE IF bump = "major"
               THEN Returned("v" \o Text(Decimal(IntOf(parts[1]) + 1))
                                 \o ".0.0")
               ELSE IF bump = "minor"
               THEN Returned("v" \o Text(parts[1]) \o "."
                                 \o Text(Decimal(IntOf(parts[2]) + 1))
                                 \o ".0")
               ELSE LET patch == NextPatch(parts[3])
                    IN IF patch.raised # None
                       THEN Raised(patch.raised)
                       ELSE Returned("v" \o Text(parts[1]) \o "."
                                         \o Text(parts[2]) \o "."
                                         \o Text(patch.value))
       IN /\ raised' = out.raised
          /\ returned' = out.value
          /\ pc' = IF out.raised = None THEN "done" ELSE "raised"
    /\ UNCHANGED <<outside_version, versioned>>

NextVersion == ListTags \/ SortTags \/ BumpVersion

SpecVersion == InitVersion /\ [][NextVersion]_vars

----------------------------------------------------------------------------
(* The commands dav makedirs, rmtree and upload as a state machine          *)

InitDav ==
    /\ command \in {"makedirs", "rmtree", "upload"}
    /\ IF command = "makedirs" THEN execute = FALSE ELSE execute \in BOOLEAN
    /\ IF command \in {"makedirs", "rmtree"}
       THEN /\ path \in DavPaths
            /\ remote = <<>>
            /\ checksum = FALSE
            /\ local = <<>>
       ELSE /\ path = <<>>
            /\ remote \in DavPaths
            /\ checksum \in BOOLEAN
            /\ local \in Locals
    /\ taken = 0
    /\ \E resources \in Servers : cl = [resources |-> resources, calls |-> <<>>]
    /\ echoed = <<>>
    /\ pc = command
    /\ raised = None
    /\ returned = None
    /\ NoPinner
    /\ NoPyproject
    /\ NoRelease
    /\ NoWait
    /\ NoVersion

\* The two lines written without --execute, lines 181-187 and 270-276.
DryRunBanner ==
    IF execute THEN <<>> ELSE <<"DRY RUN MODE", "Use -x to execute">>

\* Lines 108-131: makedirs, which has no flag --execute. A directory that
\* is there is reported, and the loop runs all the same.
Makedirs ==
    /\ pc = "makedirs"
    /\ LET p == Rooted(path)
           found == Check(cl.resources, p)
           made == MakeEach(
                       Split(p, "/"), <<>>,
                       [cl EXCEPT !.calls =
                           @ \o <<Call("get_url", p), Call("check", p)>>],
                       IF found
                       THEN Append(echoed, "directory already exists")
                       ELSE echoed)
       IN /\ cl' = made.cl
          /\ echoed' = made.echoed
    /\ pc' = "done"
    /\ UNCHANGED <<outside_dav, command, execute, checksum, path, remote,
                   local, taken, raised, returned>>

\* A removal that does not look at the flag.
Rmtree_Always ==
    /\ pc = "rmtree"
    /\ LET p == Rooted(path)
       IN IF ~Check(cl.resources, p)
          THEN /\ cl' = [cl EXCEPT !.calls =
                             @ \o <<Call("get_url", p), Call("check", p)>>]
               /\ echoed' = echoed \o DryRunBanner \o <<"does not exist">>
          ELSE /\ cl' = [resources |-> Clean(cl.resources, p),
                         calls |-> cl.calls
                             \o <<Call("get_url", p), Call("check", p),
                                  Call("clean", p)>>]
               /\ echoed' = echoed \o DryRunBanner \o <<"rm -rf">>
    /\ pc' = "done"
    /\ UNCHANGED <<outside_dav, command, execute, checksum, path, remote,
                   local, taken, raised, returned>>

\* Lines 173-202: rmtree.
Rmtree ==
    /\ pc = "rmtree"
    /\ LET p == Rooted(path)
       IN IF ~Check(cl.resources, p)
          THEN /\ cl' = [cl EXCEPT !.calls =
                             @ \o <<Call("get_url", p), Call("check", p)>>]
               /\ echoed' = echoed \o DryRunBanner \o <<"does not exist">>
          ELSE IF ~execute
          THEN /\ cl' = [cl EXCEPT !.calls =
                             @ \o <<Call("get_url", p), Call("check", p)>>]
               /\ echoed' = echoed \o DryRunBanner \o <<"rm -rf">>
          ELSE /\ cl' = [resources |-> Clean(cl.resources, p),
                         calls |-> cl.calls
                             \o <<Call("get_url", p), Call("check", p),
                                  Call("clean", p)>>]
               /\ echoed' = echoed \o DryRunBanner \o <<"rm -rf">>
    /\ pc' = "done"
    /\ UNCHANGED <<outside_dav, command, execute, checksum, path, remote,
                   local, taken, raised, returned>>

\* Lines 250-288: upload looks for the remote directory and returns
\* without it.
UploadCheck ==
    /\ pc = "upload"
    /\ LET base == Rooted(remote)
       IN /\ cl' = [cl EXCEPT !.calls = Append(@, Call("check", base))]
          /\ IF ~Check(cl.resources, base)
             THEN /\ echoed' = echoed \o DryRunBanner
                                  \o <<"base remote directory does not exist">>
                  /\ pc' = "done"
             ELSE /\ echoed' = echoed \o DryRunBanner
                  /\ pc' = "loop"
    /\ UNCHANGED <<outside_dav, command, execute, checksum, path, remote,
                   local, taken, raised, returned>>

\* Lines 290-349, one iteration of the for loop: a resource the server
\* has is reported and left as it is, and the loop goes on; any other is
\* uploaded, with --execute.
UploadResource ==
    /\ pc = "loop"
    /\ taken < Len(local)
    /\ taken' = taken + 1
    /\ pc' = IF taken' = Len(local) THEN "done" ELSE "loop"
    /\ LET resource == local[taken + 1]
           actual_remote == ActualRemote(Rooted(remote), resource, checksum)
           asked == cl.calls \o <<Call("get_url", actual_remote),
                                  Call("check", actual_remote)>>
       IN IF Check(cl.resources, actual_remote)
          THEN /\ cl' = [cl EXCEPT !.calls = asked]
               /\ echoed' = echoed \o <<"already exists",
                                         "remove it first">>
          ELSE /\ echoed' = Append(echoed,
                                IF resource.dir THEN "cp -r" ELSE "cp")
               /\ IF ~execute
                  THEN cl' = [cl EXCEPT !.calls = asked]
                  ELSE cl' = [resources |->
                                  Upload(cl.resources, actual_remote),
                              calls |-> Append(asked,
                                  Call(IF resource.dir
                                       THEN "upload_directory"
                                       ELSE "upload_file", actual_remote))]
    /\ UNCHANGED <<outside_dav, command, execute, checksum, path, remote,
                   local, raised, returned>>

NextDav == Makedirs \/ Rmtree \/ UploadCheck \/ UploadResource

SpecDav == InitDav /\ [][NextDav]_vars

----------------------------------------------------------------------------
(* Properties of release_package *)

\* The version of the tag is major.minor.patch with a number for the patch,
\* what lines 771-772 need.
WellFormedTag ==
    LET parts == Split(Tail(tag_name), ".")
    IN Len(parts) = 3 /\ IsInt(parts[3])

\* The call went past line 768, where it fetches the running pipeline.
FetchedPipeline == running_pipeline # NoPipeline /\ pc # "update_latest"

\* C21: a dry run with a well-formed tag that got as far as fetching the
\* pipeline ends by returning None.
C21_DryRunReturnsNone ==
    (dry_run /\ WellFormedTag /\ FetchedPipeline) =>
        (pc = "done" /\ returned = None)

\* C22: in a dry run no modifying call is made on the project: no commit, no
\* cancelled pipeline, no release.
C22_DryRunModifiesNothing ==
    dry_run =>
        /\ \A k \in 1..Len(calls) : calls[k] \notin Modifying
        /\ gitpkg.commits = <<>>
        /\ gitpkg.releases = <<>>
        /\ gitpkg.pipelines \in ReleasePipelines

\* A dry run that went through the commit, cancel and release steps.
C22_Witness ==
    /\ dry_run
    /\ FetchedPipeline
    /\ calls = <<"files.get", "files.get", "pipelines.list">>

\* Lines 754-765 have created the release and its tag.
TagCreated == ~dry_run /\ gitpkg.releases # <<>>

\* Lines 784-799 have made the second commit, with the README as it was
\* before the release, and the function has returned the pipeline's id.
LatestCommitted ==
    /\ Len(gitpkg.commits) = 2
    /\ gitpkg.commits[2].readme = readme_contents_orig
    /\ pc = "done"
    /\ returned = running_pipeline.id

\* C28: in a release that is not a dry run, once the tag is created the
\* function eventually makes the second commit, which restores README.md,
\* and returns the id of the pipeline.
C28_LatestCommitFollowsTag ==
    (TagCreated /\ WellFormedTag) ~> LatestCommitted

\* The calls on gitpkg of a whole release, in the order of lines 710-793.
CallsOfRelease ==
    <<"files.get", "files.get", "commits.create", "pipelines.list",
      "pipeline.cancel", "releases.create", "pipelines.list",
      "commits.create">>

\* C29: a release that is not a dry run and is over has made the release
\* commit, cancelled its pipeline, created the tag, fetched the last
\* pipeline and made the 'latest' commit, in this order, and has returned
\* the id of the pipeline it fetched.
C29_OperationsInOrder ==
    (TagCreated /\ WellFormedTag /\ pc \in {"done", "raised"}) =>
        /\ calls = CallsOfRelease
        /\ returned = running_pipeline.id

----------------------------------------------------------------------------
(* Properties of wait_for_pipeline_to_finish *)

\* The call for a pipeline has ended.
WaitEnded == pipeline_id # None /\ pc \in {"done", "raised"}

\* C23: a call for a pipeline returns only when the status it saw last is
\* success, and ends in ValueError when it saw the pipeline over in any
\* other status.
C23_ReturnsOnlyOnSuccess ==
    WaitEnded =>
        /\ pc = "done" => pipeline.status = "success"
        /\ pipeline.status \notin (Unfinished \cup {"success"}) =>
               (pc = "raised" /\ raised = "ValueError")

\* The pipeline was seen running, then over and not successful.
C23_Witness ==
    /\ WaitEnded
    /\ slept_so_far > 0
    /\ pipeline.status = "canceled"
    /\ raised = "ValueError"

\* C27: the seconds slept never exceed max_sleep.
C27_SleepWithinLimit ==
    slept_so_far <= max_sleep

----------------------------------------------------------------------------
(* Properties of get_next_version *)

\* The version tags of the project, as versions.
VersionTags ==
    {StrictVersion(DropFirst(latest_tags[j])) :
        j \in {h \in 1..Len(latest_tags) :
                  IsStrictVersion(DropFirst(latest_tags[h]))}}

\* The reference: the version after M.m.p for a bump, a pre-release of
\* M.m.p giving M.m.p for a patch.
ReferenceNext(v) ==
    LET numbers == IF bump = "major" THEN <<v.major + 1, 0, 0>>
                   ELSE IF bump = "minor" THEN <<v.major, v.minor + 1, 0>>
                   ELSE IF v.letter # "" THEN <<v.major, v.minor, v.patch>>
                   ELSE <<v.major, v.minor, v.patch + 1>>
    IN "v" \o Text(Decimal(numbers[1])) \o "." \o Text(Decimal(numbers[2]))
           \o "." \o Text(Decimal(numbers[3]))

\* The call is over and its latest tag has the three numbers M.m.p.
VersionEnded == bump # None /\ pc \in {"done", "raised"}
LatestHasThreeNumbers ==
    /\ latest_tag_name # NoTag
    /\ Len(Split(latest_tag_name, ".")) = 3

\* C24: without a version tag the call returns v1.0.0, v0.1.0 or v0.0.1
\* for major, minor or patch; else the latest tag is a version tag that
\* none is after, and when it is M.m.p or a pre-release of M.m.p the call
\* returns the version the reference gives.
C24_NextVersionIsReference ==
    VersionEnded =>
        IF VersionTags = {}
        THEN /\ pc = "done"
             /\ returned = (IF bump = "major" THEN "v1.0.0"
                            ELSE IF bump = "minor" THEN "v0.1.0"
                            ELSE "v0.0.1")
        ELSE /\ latest_tag_name # NoTag
             /\ StrictVersion(latest_tag_name) \in VersionTags
             /\ \A v \in VersionTags :
                    ~Before(StrictVersion(latest_tag_name), v)
             /\ LatestHasThreeNumbers =>
                    /\ pc = "done"
                    /\ returned =
                           ReferenceNext(StrictVersion(latest_tag_name))

\* A patch release after the pre-release 1.2.4b0, which is after 1.2.3.
C24_Witness ==
    /\ VersionEnded
    /\ bump = "patch"
    /\ Len(latest_tags) = 2
    /\ latest_tag_name = <<"1", ".", "2", ".", "4", "b", "0">>
    /\ returned = "v1.2.4"

----------------------------------------------------------------------------
(* Properties of the dav commands *)

\* C25: without --execute, rmtree and upload make no call that changes the
\* server: every call on the client is a query, and no resource of the
\* server comes from the local side.
C25_DryRunOnlyAsks ==
    (command \in {"rmtree", "upload"} /\ ~execute) =>
        /\ \A j \in 1..Len(cl.calls) : cl.calls[j].op \in Queries
        /\ \A r \in cl.resources : r.origin = "remote"

\* An upload of two resources without --execute is over: the server has
\* one of them, and the other would have been copied.
C25_Witness ==
    /\ ~execute
    /\ command = "upload"
    /\ pc = "done"
    /\ taken = 2
    /\ \E j \in 1..Len(echoed) : echoed[j] = "already exists"
    /\ \E j \in 1..Len(echoed) : echoed[j] \in {"cp", "cp -r"}

\* The server has a resource of the name of one that upload was to send.
FoundExisting ==
    /\ command = "upload"
    /\ \E j \in 1..Len(echoed) : echoed[j] = "already exists"

\* C26: when the server has a resource of the name of one that is to be
\* uploaded, upload ends with an error, right there: the report of that
\* resource is the last thing it writes.
C26_ExistingIsAnError ==
    FoundExisting =>
        /\ pc = "raised"
        /\ raised # None
        /\ echoed[Len(echoed)] \in {"already exists", "remove it first"}

====
